---- MODULE Spec2Model ----
(***************************************************************************)
(* The debate backend of backend/main.py as a state machine.               *)
(*                                                                         *)
(* State: the relational tables the handlers read and write, the wall      *)
(* clock, and one record per in-flight HTTP request.  Every handler is an  *)
(* asyncio coroutine: it can be suspended at each `await`, and every       *)
(* conn.execute / conn.fetch runs in its own implicit transaction (the     *)
(* code opens no explicit transaction), so one SQL statement is one atomic *)
(* step and the steps of concurrent requests interleave.                   *)
(*                                                                         *)
(* Tables: init_database issues CREATE TABLE IF NOT EXISTS, which leaves   *)
(* an existing table as it is.  The ratings table it creates has the       *)
(* columns (ratee_id, author, ...), the handlers' SQL names the column     *)
(* ratings.statement_id and the table argument_positions, which no         *)
(* statement of the program creates.  Whether the database the process is  *)
(* started on already holds a ratings table with a statement_id column,    *)
(* and an argument_positions table, is therefore a choice of the           *)
(* environment: Init draws both.  A statement that names a missing column  *)
(* or table raises, and the exception ends the request with status 500.    *)
(*                                                                         *)
(* Strings: a string is a sequence of chunks; the chunk " " is white       *)
(* space.  A statement id such as "panel_1_critique_0" is the sequence of  *)
(* its parts between underscores, <<"panel","1","critique","0">>.          *)
(***************************************************************************)
EXTENDS Integers, Sequences, FiniteSets, TLC

VARIABLES
    ratingsHasStatementId,  \* the ratings table has the column statement_id
    hasArgumentPositions,   \* the table argument_positions exists
    statements,             \* rows of table statements
    arguments,              \* rows of table arguments
    critiques,              \* rows of table critiques
    ratings,                \* rows of table ratings
    argument_positions,     \* rows of table argument_positions
    now,                    \* NOW(), in hours
    pc,                     \* per request: the await it is suspended at
    req,                    \* per request: its locals
    resp,                   \* per request: the HTTP response it returned
    mf                      \* the call of train_matrix_factorization in progress

vars == <<ratingsHasStatementId, hasArgumentPositions, statements, arguments,
          critiques, ratings, argument_positions, now, pc, req, resp, mf>>

db == <<statements, arguments, critiques, ratings, argument_positions>>
\* what no handler of main.py writes: the schema, and the training state of
\* matrixfactorization.py, which main.py never calls
env == <<ratingsHasStatementId, hasArgumentPositions, mf>>

----------------------------------------------------------------------------
(* Program constants *)

num_columns == 3
recalc_num_columns == 3
TriggerCount == 5
Hour == 1
MinRating == 1
MaxRating == 7

(* Bounds of the model *)

MaxNewArguments == 1
MaxTime == 1
MaxNewCritiques == 2
MaxRacingArguments == 2
MaxEpochs == 2

Procs == {"r1", "r2"}

----------------------------------------------------------------------------
(* Strings *)

SP == " "

RECURSIVE LStrip(_)
LStrip(s) == IF s # <<>> /\ Head(s) = SP THEN LStrip(Tail(s)) ELSE s

RECURSIVE RStrip(_)
RStrip(s) ==
    IF s # <<>> /\ s[Len(s)] = SP THEN RStrip(SubSeq(s, 1, Len(s) - 1)) ELSE s

\* str.strip()
Strip(s) == RStrip(LStrip(s))

\* int(part): the parts that spell an integer, with the integer; int() of
\* any other part raises ValueError
IntSpellings ==
    << <<"0", 0>>, <<"1", 1>>, <<"01", 1>>, <<"2", 2>>, <<"4", 4>>, <<"7", 7>>,
       <<"8", 8>>, <<"9", 9>>, <<"10", 10>>, <<"-1", -1>> >>

IsInt(part) == \E k \in DOMAIN IntSpellings : IntSpellings[k][1] = part
ParseInt(part) ==
    IntSpellings[CHOOSE k \in DOMAIN IntSpellings : IntSpellings[k][1] = part][2]

----------------------------------------------------------------------------
(* Sorting helpers *)

Max(S) == CHOOSE x \in S : \A y \in S : y <= x
Min(S) == CHOOSE x \in S : \A y \in S : x <= y

RECURSIVE SortedIds(_)
SortedIds(S) == IF S = {} THEN <<>> ELSE <<Min(S)>> \o SortedIds(S \ {Min(S)})

----------------------------------------------------------------------------
(* init_database: the seed rows.  The SERIAL ids run 1 (argument), 2, 3     *)
(* (its critiques), 4 (argument), 5, 6 (critiques added by the branch      *)
(* `elif statement_id == 4`), 7 and 8 (arguments without critiques).       *)

SeedStatements ==
    { [id |-> 1, statement_type |-> "argument"],
      [id |-> 2, statement_type |-> "critique"],
      [id |-> 3, statement_type |-> "critique"],
      [id |-> 4, statement_type |-> "argument"],
      [id |-> 5, statement_type |-> "critique"],
      [id |-> 6, statement_type |-> "critique"],
      [id |-> 7, statement_type |-> "argument"],
      [id |-> 8, statement_type |-> "argument"] }

\* the length of an argument's text (len(argument))
TextLen(text) ==
    CASE text = <<"Climate change ...">> -> 167
      [] text = <<"Renewable energy ...">> -> 128
      [] text = <<"Universal healthcare ...">> -> 149
      [] text = <<"Artificial intelligence ...">> -> 137
      [] OTHER -> Len(text)

SeedArguments ==
    { [argument_id |-> 1, argument |-> <<"Climate change ...">>,
       author |-> <<"Dr. Climate">>, column_index |-> 0, position_in_column |-> 0],
      [argument_id |-> 4, argument |-> <<"Renewable energy ...">>,
       author |-> <<"GreenTech">>, column_index |-> 0, position_in_column |-> 1],
      [argument_id |-> 7, argument |-> <<"Universal healthcare ...">>,
       author |-> <<"HealthPolicy">>, column_index |-> 1, position_in_column |-> 0],
      [argument_id |-> 8, argument |-> <<"Artificial intelligence ...">>,
       author |-> <<"EdTechFuture">>, column_index |-> 2, position_in_column |-> 0] }

Critique(id, arg, text, s, e, author) ==
    [critique_id |-> id, argument_id |-> arg, text |-> text, start_ind |-> s,
     end_ind |-> e, author |-> author, category_index |-> 0, quality |-> 5]

SeedCritiques ==
    { Critique(2, 1, <<"The scientific consensus claim ...">>, 85, 120, <<"Skeptic1">>),
      Critique(3, 1, <<"What about natural climate variations?">>, 0, 27, <<"NaturalCycles">>),
      Critique(5, 4, <<"Risk of reducing human interaction">>, 74, 101, <<"HumanTouch">>),
      Critique(6, 4, <<"Privacy concerns with student data">>, 102, 141, <<"PrivacyWatch">>) }

----------------------------------------------------------------------------
(* Requests *)

NoReq ==
    [op |-> "none", statement_id |-> <<>>, author |-> <<>>, quality_rating |-> 0,
     agreement_rating |-> 0, text |-> <<>>, next_position |-> 0,
     new_id |-> 0, rows |-> <<>>, i |-> 0, old |-> {},
     argument_id |-> 0, start_ind |-> 0, end_ind |-> 0]

\* status 0: the slot has returned no response to its current request
NoResp == [status |-> 0, body |-> "none", repositioned |-> FALSE]

Response(status, body) == [status |-> status, body |-> body, repositioned |-> FALSE]

\* response = {"message": "Rating added successfully ...", "repositioned": True}
Repositioned == [status |-> 200, body |-> "rating", repositioned |-> TRUE]

\* train_matrix_factorization has not been called
NoTraining == [phase |-> "none"]

Init ==
    /\ ratingsHasStatementId \in BOOLEAN
    /\ hasArgumentPositions \in BOOLEAN
    /\ statements = SeedStatements
    /\ arguments = SeedArguments
    /\ critiques = SeedCritiques
    /\ ratings = {}
    /\ argument_positions = {}
    /\ now = 0
    /\ pc = [p \in Procs |-> "idle"]
    /\ req = [p \in Procs |-> NoReq]
    /\ resp = [p \in Procs |-> NoResp]
    /\ mf = NoTraining

\* a request ends: its response is returned, its locals are dropped and the
\* slot waits for the next request
Finish(p, r) ==
    /\ pc' = [pc EXCEPT ![p] = "idle"]
    /\ req' = [req EXCEPT ![p] = NoReq]
    /\ resp' = [resp EXCEPT ![p] = r]

\* a request is accepted into slot p and suspends at await `at`
Begin(p, at, r) ==
    /\ pc' = [pc EXCEPT ![p] = at]
    /\ req' = [req EXCEPT ![p] = r]
    /\ resp' = [resp EXCEPT ![p] = NoResp]

----------------------------------------------------------------------------
(* convert_to_frontend_format *)

NULL == -1

\* x sorts before y under ORDER BY ... ASC (NULLS LAST is the default)
SqlLess(x, y) == x # NULL /\ (y = NULL \/ x < y)

\* LEFT JOIN argument_positions ap ON a.argument_id = ap.argument_id, with
\* `ap` the rows of argument_positions the SELECT sees
ApColumn(ap, a) ==
    LET m == {r \in ap : r.argument_id = a}
    IN  IF m = {} THEN NULL ELSE (CHOOSE r \in m : TRUE).column_index

ApPosition(ap, a) ==
    LET m == {r \in ap : r.argument_id = a}
    IN  IF m = {} THEN NULL ELSE (CHOOSE r \in m : TRUE).position_in_column

CritiquesOf(a) == {c \in critiques : c.argument_id = a}

\* the critique_id of the first joined row of argument a
FirstCritique(a) ==
    IF CritiquesOf(a) = {} THEN NULL
    ELSE Min({c.critique_id : c \in CritiquesOf(a)})

\* the first row of a comes strictly before the first row of b under
\* ORDER BY ap.column_index, ap.position_in_column, c.critique_id
RowBefore(ap, a, b) ==
    \/ SqlLess(ApColumn(ap, a), ApColumn(ap, b))
    \/ /\ ApColumn(ap, a) = ApColumn(ap, b)
       /\ \/ SqlLess(ApPosition(ap, a), ApPosition(ap, b))
          \/ /\ ApPosition(ap, a) = ApPosition(ap, b)
             /\ SqlLess(FirstCritique(a), FirstCritique(b))

\* the orders in which conn.fetch may deliver the arguments S: rows the
\* ORDER BY does not separate come in any order
RECURSIVE FetchOrders(_, _)
FetchOrders(ap, S) ==
    IF S = {} THEN {<<>>}
    ELSE UNION { { <<a>> \o t : t \in FetchOrders(ap, S \ {a}) } :
                 a \in {x \in S : \A y \in S : ~RowBefore(ap, y, x)} }

\* row['column_index'] or 0
ColumnOr0(ap, a) == IF ApColumn(ap, a) = NULL THEN 0 ELSE ApColumn(ap, a)
PositionOr0(ap, a) == IF ApPosition(ap, a) = NULL THEN 0 ELSE ApPosition(ap, a)

ArgumentRow(a) == CHOOSE r \in arguments : r.argument_id = a

CritiqueRow(c) == CHOOSE r \in critiques : r.critique_id = c

\* panels_dict[argument_id]['critiques']
CritiqueList(a) ==
    LET ids == SortedIds({c.critique_id : c \in CritiquesOf(a)})
    IN  [k \in 1..Len(ids) |->
            [text |-> CritiqueRow(ids[k]).text,
             start_ind |-> CritiqueRow(ids[k]).start_ind,
             end_ind |-> CritiqueRow(ids[k]).end_ind,
             author |-> CritiqueRow(ids[k]).author,
             index |-> k - 1]]

Panel(a) ==
    [argument_id |-> a, argument |-> ArgumentRow(a).argument,
     author |-> ArgumentRow(a).author, critiques |-> CritiqueList(a)]

\* panel_positions.sort(key=lambda x: x[0]) : a stable sort by position
RECURSIVE SortByPosition(_, _)
SortByPosition(ap, seq) ==
    IF seq = <<>> THEN <<>>
    ELSE LET m == Min({PositionOr0(ap, seq[k]) : k \in 1..Len(seq)})
             IsMin(a) == PositionOr0(ap, a) = m
             NotMin(a) == PositionOr0(ap, a) # m
         IN  SelectSeq(seq, IsMin) \o SortByPosition(ap, SelectSeq(seq, NotMin))

\* the columns built from the arguments in fetch order `order`
Columns(ap, order) ==
    IF order = <<>> THEN <<>>
    ELSE LET max_col == Max({ColumnOr0(ap, order[k]) : k \in 1..Len(order)})
         IN  [c \in 1..(max_col + 1) |->
                LET InCol(a) == ColumnOr0(ap, a) = c - 1
                    sorted == SortByPosition(ap, SelectSeq(order, InCol))
                IN  [k \in 1..Len(sorted) |-> Panel(sorted[k])]]

ArgumentIds == {a.argument_id : a \in arguments}

JoinedArguments_innerJoin(ap) ==
    {a \in ArgumentIds : \E r \in ap : r.argument_id = a}

\* FROM arguments a LEFT JOIN argument_positions ap: the arguments that have
\* a row in the result, which is every argument
JoinedArguments(ap) == ArgumentIds

\* every value convert_to_frontend_format can return when argument_positions
\* holds the rows `ap`
ConvertToFrontendFormat(ap) ==
    {Columns(ap, o) : o \in FetchOrders(ap, JoinedArguments(ap))}

\* what GET /data returns in the current state
Layouts == ConvertToFrontendFormat(argument_positions)

\* GET /data
GetData(p) ==
    /\ pc[p] = "idle"
    /\ IF hasArgumentPositions
       THEN Finish(p, Response(200, "data"))
       ELSE Finish(p, Response(500, "UndefinedTableError"))
    /\ UNCHANGED <<env, db, now>>

----------------------------------------------------------------------------
(* recalculate_positions.  req[p].old is a history variable: the rows of    *)
(* argument_positions when the recompute of request p started.             *)

\* request p is inside recalculate_positions
InRecompute(p) == pc[p] \in {"recalc_fetch", "recalc_write"}

\* str(n): the decimal text of an integer, as in 'panel_' || a.argument_id
IntText(n) ==
    IntSpellings[Min({k \in DOMAIN IntSpellings : IntSpellings[k][2] = n})][1]

\* LEFT JOIN ratings r ON r.statement_id = 'panel_' || a.argument_id
RatingsOf(a) == {r \in ratings : r.statement_id = <<"panel", IntText(a)>>}

\* COUNT(CASE WHEN r.statement_id = 'panel_' || a.argument_id THEN 1 END)
RatingCount(a) == Cardinality(RatingsOf(a))

RECURSIVE SumQuality(_)
SumQuality(S) ==
    IF S = {} THEN 0
    ELSE LET r == CHOOSE x \in S : TRUE
         IN  r.quality_rating + SumQuality(S \ {r})

\* avg_quality of a is greater than avg_quality of b (both rated):
\* AVG(CASE WHEN ... THEN r.quality_rating END), compared without division
AvgQualityGreater(a, b) ==
    SumQuality(RatingsOf(a)) * RatingCount(b) > SumQuality(RatingsOf(b)) * RatingCount(a)

\* the argument_id column of the fetched rows (ORDER BY a.argument_id)
RecalcRows == SortedIds(ArgumentIds)

NewColumn_offByOne(i) == i % (recalc_num_columns + 1)
NewColumn(i) == i % recalc_num_columns
NewPosition(i) == i \div recalc_num_columns

UpsertPosition_rotatesOnConflict(rows, a, col, pos) ==
    {r \in rows : r.argument_id # a}
        \cup {[argument_id |-> a,
               column_index |->
                   IF \E r \in rows : r.argument_id = a
                   THEN (ApColumn(rows, a) + 1) % recalc_num_columns ELSE col,
               position_in_column |-> pos]}

\* INSERT ... ON CONFLICT (argument_id) DO UPDATE
UpsertPosition(rows, a, col, pos) ==
    {r \in rows : r.argument_id # a}
        \cup {[argument_id |-> a, column_index |-> col, position_in_column |-> pos]}

RecalcFetch_consumesRatings(p) ==
    /\ pc[p] = "recalc_fetch"
    /\ ratingsHasStatementId
    /\ RecalcRows # <<>>
    /\ ratings' = {}
    /\ pc' = [pc EXCEPT ![p] = "recalc_write"]
    /\ req' = [req EXCEPT ![p].rows = RecalcRows, ![p].i = 0]
    /\ UNCHANGED <<env, statements, arguments, critiques, argument_positions, now, resp>>

\* the SELECT of recalculate_positions; it names ratings.statement_id
RecalcFetch(p) ==
    /\ pc[p] = "recalc_fetch"
    /\ IF ~ratingsHasStatementId
       THEN Finish(p, Response(500, "UndefinedColumnError"))
       ELSE IF RecalcRows = <<>>
       THEN Finish(p, Repositioned)
       ELSE /\ pc' = [pc EXCEPT ![p] = "recalc_write"]
            /\ req' = [req EXCEPT ![p].rows = RecalcRows, ![p].i = 0]
            /\ UNCHANGED resp
    /\ UNCHANGED <<env, db, now>>

RecalcWrite_retriesRow(p) ==
    /\ pc[p] = "recalc_write"
    /\ hasArgumentPositions
    /\ argument_positions' =
            UpsertPosition(argument_positions, req[p].rows[req[p].i + 1],
                           NewColumn(req[p].i), NewPosition(req[p].i))
    /\ UNCHANGED <<env, statements, arguments, critiques, ratings, now, pc, req, resp>>

\* one pass of the loop `for i, arg in enumerate(...)`: one conn.execute
RecalcWrite(p) ==
    /\ pc[p] = "recalc_write"
    /\ LET i == req[p].i
           a == req[p].rows[i + 1]
       IN  IF ~hasArgumentPositions
           THEN /\ Finish(p, Response(500, "UndefinedTableError"))
                /\ UNCHANGED argument_positions
           ELSE /\ argument_positions' =
                     UpsertPosition(argument_positions, a, NewColumn(i), NewPosition(i))
                /\ IF i + 1 = Len(req[p].rows)
                   THEN Finish(p, Repositioned)
                   ELSE /\ req' = [req EXCEPT ![p].i = i + 1]
                        /\ UNCHANGED <<pc, resp>>
    /\ UNCHANGED <<env, statements, arguments, critiques, ratings, now>>

----------------------------------------------------------------------------
(* check_and_trigger_repositioning *)

\* SELECT COUNT(*) FROM ratings WHERE created_at > NOW() - INTERVAL '1 hour'
RecentRatingsCount == Cardinality({r \in ratings : r.created_at > now - Hour})

ShouldReposition_allRatings == Cardinality(ratings) >= TriggerCount

ShouldReposition_strict == RecentRatingsCount > TriggerCount

\* if recent_ratings_count >= 5
ShouldReposition == RecentRatingsCount >= TriggerCount

CheckAndTrigger(p) ==
    /\ pc[p] = "check"
    /\ IF ShouldReposition
       THEN /\ pc' = [pc EXCEPT ![p] = "recalc_fetch"]
            /\ req' = [req EXCEPT ![p].old = argument_positions]
            /\ UNCHANGED resp
       ELSE Finish(p, Response(200, "rating"))
    /\ UNCHANGED <<env, db, now>>

----------------------------------------------------------------------------
(* POST /rating *)

InRange_upToEight(v) == MinRating <= v /\ v <= MaxRating + 1

\* 1 <= v <= 7
InRange(v) == MinRating <= v /\ v <= MaxRating

\* lines 481-513: the checks before the rating is stored; "ok" or the detail
\* of the HTTPException(400)
ValidateRating(nr) ==
    LET parts == nr.statement_id
    IN  IF ~InRange(nr.quality_rating) \/ ~InRange(nr.agreement_rating)
        THEN "Ratings must be between 1 and 7"
        ELSE IF nr.author = <<>> \/ Strip(nr.author) = <<>>
        THEN "Author is required"
        ELSE IF ~(Len(parts) >= 2 /\ parts[1] = "panel")
        THEN "Invalid statement ID format"
        ELSE IF ~IsInt(parts[2])
        THEN "Invalid statement ID format"
        ELSE IF ParseInt(parts[2]) \notin ArgumentIds
        THEN "Panel does not exist"
        ELSE IF Len(parts) > 2 /\ parts[3] = "critique"
        THEN IF Len(parts) < 4 \/ ~IsInt(parts[4])
             THEN "Invalid statement ID format"
             ELSE IF ParseInt(parts[4]) >= Cardinality(CritiquesOf(ParseInt(parts[2])))
             THEN "Critique does not exist"
             ELSE "ok"
        ELSE "ok"

\* the request arrives and is validated
AddRating(p, nr) ==
    /\ pc[p] = "idle"
    /\ IF ValidateRating(nr) = "ok"
       THEN Begin(p, "store",
                  [NoReq EXCEPT !.op = "add_rating",
                                !.statement_id = nr.statement_id,
                                !.author = nr.author,
                                !.quality_rating = nr.quality_rating,
                                !.agreement_rating = nr.agreement_rating])
       ELSE Finish(p, Response(400, ValidateRating(nr)))
    /\ UNCHANGED <<env, db, now>>

\* INSERT INTO ratings ... ON CONFLICT (statement_id, author) DO UPDATE
UpsertRating(rows, statement_id, author, quality, agreement, at) ==
    {r \in rows : ~(r.statement_id = statement_id /\ r.author = author)}
        \cup {[statement_id |-> statement_id, author |-> author,
               quality_rating |-> quality, agreement_rating |-> agreement,
               created_at |-> at]}

StoreRating_waitsForRecompute(p) ==
    /\ pc[p] = "store"
    /\ \A w \in Procs : ~InRecompute(w)
    /\ ratingsHasStatementId
    /\ ratings' = UpsertRating(ratings, req[p].statement_id,
                                Strip(req[p].author), req[p].quality_rating,
                                req[p].agreement_rating, now)
    /\ pc' = [pc EXCEPT ![p] = "check"]
    /\ req' = [req EXCEPT ![p] = [NoReq EXCEPT !.op = "add_rating"]]
    /\ UNCHANGED <<env, statements, arguments, critiques, argument_positions, now, resp>>

\* "Store rating (upsert)": the INSERT names the column ratings.statement_id
StoreRating(p) ==
    /\ pc[p] = "store"
    /\ IF ratingsHasStatementId
       THEN /\ ratings' = UpsertRating(ratings, req[p].statement_id,
                                       Strip(req[p].author), req[p].quality_rating,
                                       req[p].agreement_rating, now)
            /\ pc' = [pc EXCEPT ![p] = "check"]
            /\ req' = [req EXCEPT ![p] = [NoReq EXCEPT !.op = "add_rating"]]
            /\ UNCHANGED resp
       ELSE /\ Finish(p, Response(500, "UndefinedColumnError"))
            /\ UNCHANGED ratings
    /\ UNCHANGED <<env, statements, arguments, critiques, argument_positions, now>>

----------------------------------------------------------------------------
(* POST /argument *)

\* requests that have yet to draw a statement id, and the ids drawn since
\* start-up (the model accepts MaxNewArguments of them)
PendingArguments == {q \in Procs : pc[q] \in {"arg_max", "arg_statement"}}
NewStatementIds == {s.id : s \in statements} \ {s.id : s \in SeedStatements}

\* the request arrives; the model accepts it while fewer than n statement
\* ids have been drawn or are about to be
AddArgumentUpTo(n, p, text, author) ==
    /\ pc[p] = "idle"
    /\ Cardinality(NewStatementIds) + Cardinality(PendingArguments) < n
    /\ IF author = <<>> \/ Strip(author) = <<>>
       THEN Finish(p, Response(400, "Author is required"))
       ELSE Begin(p, "arg_max",
                  [NoReq EXCEPT !.op = "add_argument", !.text = text, !.author = author])
    /\ UNCHANGED <<env, db, now>>

AddArgument(p, text, author) == AddArgumentUpTo(MaxNewArguments, p, text, author)

\* the last column will be for unsorted args
TargetColumn == num_columns - 1

\* SELECT COALESCE(MAX(position_in_column), -1) FROM arguments WHERE column_index = $1
MaxPosition(col) ==
    LET ps == {a.position_in_column : a \in {x \in arguments : x.column_index = col}}
    IN  IF ps = {} THEN -1 ELSE Max(ps)

ArgumentMaxPosition(p) ==
    /\ pc[p] = "arg_max"
    /\ pc' = [pc EXCEPT ![p] = "arg_statement"]
    /\ req' = [req EXCEPT ![p].next_position = MaxPosition(TargetColumn) + 1]
    /\ UNCHANGED <<env, db, now, resp>>

\* nextval of the SERIAL statements.id
NextStatementId == Max({s.id : s \in statements}) + 1

ArgumentStatement(p) ==
    /\ pc[p] = "arg_statement"
    /\ statements' = statements \cup
                        {[id |-> NextStatementId, statement_type |-> "argument"]}
    /\ pc' = [pc EXCEPT ![p] = "arg_insert"]
    /\ req' = [req EXCEPT ![p].new_id = NextStatementId]
    /\ UNCHANGED <<env, arguments, critiques, ratings, argument_positions, now, resp>>

ArgumentInsert(p) ==
    /\ pc[p] = "arg_insert"
    /\ arguments' = arguments \cup
            {[argument_id |-> req[p].new_id, argument |-> req[p].text,
              author |-> Strip(req[p].author), column_index |-> TargetColumn,
              position_in_column |-> req[p].next_position]}
    /\ Finish(p, Response(200, "argument"))
    /\ UNCHANGED <<env, statements, critiques, ratings, argument_positions, now>>

----------------------------------------------------------------------------
(* POST /critique *)

\* requests that have yet to draw a statement id, and the critique ids drawn
\* since start-up (the model accepts MaxNewCritiques of them)
PendingCritiques == {q \in Procs : pc[q] \in {"crit_panel", "crit_statement"}}
NewCritiqueIds ==
    {s.id : s \in {x \in statements : x.statement_type = "critique"}}
        \ {s.id : s \in SeedStatements}

\* the request arrives; the author is checked before the first await
AddCritique(p, nc) ==
    /\ pc[p] = "idle"
    /\ Cardinality(NewCritiqueIds) + Cardinality(PendingCritiques) < MaxNewCritiques
    /\ IF nc.author = <<>> \/ Strip(nc.author) = <<>>
       THEN Finish(p, Response(400, "Author is required"))
       ELSE Begin(p, "crit_panel",
                  [NoReq EXCEPT !.op = "add_critique", !.argument_id = nc.argument_id,
                                !.text = nc.critique_text, !.start_ind = nc.start_ind,
                                !.end_ind = nc.end_ind, !.author = nc.author])
    /\ UNCHANGED <<env, db, now>>

\* not (start_ind < 0 or end_ind > len(argument) or start_ind >= end_ind)
ValidIndices(start_ind, end_ind, argument) ==
    ~(start_ind < 0 \/ end_ind > TextLen(argument) \/ start_ind >= end_ind)

\* SELECT argument FROM arguments WHERE argument_id = $1, and the checks on
\* the row
CritiquePanel(p) ==
    /\ pc[p] = "crit_panel"
    /\ IF req[p].argument_id \notin ArgumentIds
       THEN Finish(p, Response(400, "Invalid panel ID"))
       ELSE IF ~ValidIndices(req[p].start_ind, req[p].end_ind,
                             ArgumentRow(req[p].argument_id).argument)
       THEN Finish(p, Response(400, "Invalid text indices"))
       ELSE /\ pc' = [pc EXCEPT ![p] = "crit_statement"]
            /\ UNCHANGED <<req, resp>>
    /\ UNCHANGED <<env, db, now>>

\* INSERT INTO statements (statement_type) VALUES ('critique') RETURNING id
CritiqueStatement(p) ==
    /\ pc[p] = "crit_statement"
    /\ statements' = statements \cup
                        {[id |-> NextStatementId, statement_type |-> "critique"]}
    /\ pc' = [pc EXCEPT ![p] = "crit_insert"]
    /\ req' = [req EXCEPT ![p].new_id = NextStatementId]
    /\ UNCHANGED <<env, arguments, critiques, ratings, argument_positions, now, resp>>

\* INSERT INTO critiques; category_index and quality take their defaults
CritiqueInsert(p) ==
    /\ pc[p] = "crit_insert"
    /\ critiques' = critiques \cup
            {Critique(req[p].new_id, req[p].argument_id, req[p].text,
                      req[p].start_ind, req[p].end_ind, Strip(req[p].author))}
    /\ Finish(p, Response(200, "critique"))
    /\ UNCHANGED <<env, statements, arguments, ratings, argument_positions, now>>

----------------------------------------------------------------------------

(* The environment *)

\* a statement sent to the database raises (the connection is lost, the
\* statement times out): the exception leaves the handler, status 500
AtDatabase(p) ==
    pc[p] \in {"store", "check", "recalc_fetch", "recalc_write",
               "arg_max", "arg_statement", "arg_insert",
               "crit_panel", "crit_statement", "crit_insert"}

DbError(p) ==
    /\ AtDatabase(p)
    /\ Finish(p, Response(500, "PostgresError"))
    /\ UNCHANGED <<env, db, now>>

\* an hour passes
Tick ==
    /\ now < MaxTime
    /\ now' = now + 1
    /\ UNCHANGED <<env, db, pc, req, resp>>

----------------------------------------------------------------------------
(* matrixfactorization.py: MatrixFactorization and                         *)
(* train_matrix_factorization.  Weights are counted in steps of the        *)
(* optimizer: one Adam step moves every coordinate that has a gradient by  *)
(* about lr, up or down, and leaves a tensor without a gradient alone      *)
(* (torch.optim.Adam skips a parameter whose .grad is None).  The values   *)
(* of the gradients are not modelled: both directions are possible.        *)

\* model.parameters(), in the order __init__ registers them
ParamNames ==
    <<"user_factors", "statement_factors", "user_intercepts",
      "statement_intercepts", "global_intercept">>

ParamSet == {ParamNames[k] : k \in DOMAIN ParamNames}

TrainUsers == {1, 2}
TrainStatements == {1}

\* the rows of a tensor
Rows(name) ==
    CASE name \in {"user_factors", "user_intercepts"} -> TrainUsers
      [] name \in {"statement_factors", "statement_intercepts"} -> TrainStatements
      [] OTHER -> {1}

\* xavier_uniform_ for the factors (one value of its range), fill_(0.0) and
\* torch.zeros for the intercepts
DefaultWeight(name) ==
    IF name \in {"user_factors", "statement_factors"}
    THEN [r \in Rows(name) |-> 1]
    ELSE [r \in Rows(name) |-> 0]

RequiresGrad_allTrainable(include_user_intercept) == [name \in ParamSet |-> TRUE]

\* if not include_user_intercept: self.user_intercepts.requires_grad_(False)
RequiresGrad(include_user_intercept) ==
    [name \in ParamSet |-> name = "user_intercepts" => include_user_intercept]

\* if init_params is not None: each tensor named in it takes the given data
InitialWeight(init_params, name) ==
    IF name \in DOMAIN init_params THEN init_params[name] ELSE DefaultWeight(name)

\* MatrixFactorization(...) as train_matrix_factorization builds it, before
\* the first epoch
NewModel(include_user_intercept, init_params, n_epochs) ==
    [phase |-> "training",
     include_user_intercept |-> include_user_intercept,
     init_params |-> init_params,
     n_epochs |-> n_epochs,
     epoch |-> 0,
     k |-> 0,
     weight |-> [name \in ParamSet |-> InitialWeight(init_params, name)],
     requires_grad |-> RequiresGrad(include_user_intercept),
     has_grad |-> [name \in ParamSet |-> FALSE]]

\* optimizer.zero_grad(); predictions = model(data); total_loss.backward():
\* every tensor that requires a gradient has one
Backward ==
    /\ mf.phase = "training"
    /\ mf.k = 0
    /\ mf.epoch < mf.n_epochs
    /\ mf' = [mf EXCEPT !.has_grad = [name \in ParamSet |-> mf.requires_grad[name]],
                        !.k = 1]
    /\ UNCHANGED <<ratingsHasStatementId, hasArgumentPositions, db, now, pc, req, resp>>

Deltas == {-1, 1}

\* optimizer.step(), at the k-th tensor of model.parameters()
OptimizerStep ==
    /\ mf.phase = "training"
    /\ mf.k \in DOMAIN ParamNames
    /\ LET name == ParamNames[mf.k]
           last == mf.k = Len(ParamNames)
       IN  \E d \in [Rows(name) -> Deltas] :
              mf' = [mf EXCEPT
                        !.weight[name] =
                            IF mf.has_grad[name]
                            THEN [r \in Rows(name) |-> mf.weight[name][r] + d[r]]
                            ELSE mf.weight[name],
                        !.k = IF last THEN 0 ELSE mf.k + 1,
                        !.epoch = IF last THEN mf.epoch + 1 ELSE mf.epoch]
    /\ UNCHANGED <<ratingsHasStatementId, hasArgumentPositions, db, now, pc, req, resp>>

\* the loop `for epoch in range(n_epochs)` is over: the model is returned
TrainReturn ==
    /\ mf.phase = "training"
    /\ mf.k = 0
    /\ mf.epoch = mf.n_epochs
    /\ mf' = [mf EXCEPT !.phase = "done"]
    /\ UNCHANGED <<ratingsHasStatementId, hasArgumentPositions, db, now, pc, req, resp>>

\* the arguments of the call
WarmStart ==
    [name \in {"user_intercepts"} |-> [r \in TrainUsers |-> IF r = 1 THEN 2 ELSE -1]]

WarmStartAll ==
    [name \in {"user_intercepts", "statement_intercepts", "global_intercept"} |->
        [r \in Rows(name) |-> IF r = 1 THEN 2 ELSE -1]]

\* init_params=None is the dict without entries
InitParams == {<<>>, WarmStart, WarmStartAll}

InitTrain ==
    /\ ratingsHasStatementId = FALSE
    /\ hasArgumentPositions = FALSE
    /\ statements = SeedStatements
    /\ arguments = SeedArguments
    /\ critiques = SeedCritiques
    /\ ratings = {}
    /\ argument_positions = {}
    /\ now = 0
    /\ pc = [p \in Procs |-> "idle"]
    /\ req = [p \in Procs |-> NoReq]
    /\ resp = [p \in Procs |-> NoResp]
    /\ \E include_user_intercept \in BOOLEAN, init_params \in InitParams,
          n_epochs \in 0..MaxEpochs :
            mf = NewModel(include_user_intercept, init_params, n_epochs)

NextTrain == Backward \/ OptimizerStep \/ TrainReturn

SpecTrain == InitTrain /\ [][NextTrain]_vars

----------------------------------------------------------------------------

(* Inputs *)

RatingAuthors == {<<"u1">>, <<"u2">>, <<"u3">>, <<"u4">>, <<"u5">>, <<" ", "u1">>}
RatingIds == {<<"panel", "1">>}
RatingValues == {<<7, 1>>}

NewRatings ==
    {[statement_id |-> s, author |-> a, quality_rating |-> v[1], agreement_rating |-> v[2]] :
        s \in RatingIds, a \in RatingAuthors, v \in RatingValues}

ArgumentTexts == {<<"new argument">>}
ArgumentAuthors == {<<"u1">>, <<" ">>}

Next ==
    \/ \E p \in Procs, nr \in NewRatings : AddRating(p, nr)
    \/ \E p \in Procs : StoreRating(p)
    \/ \E p \in Procs : CheckAndTrigger(p)
    \/ \E p \in Procs : RecalcFetch(p)
    \/ \E p \in Procs : RecalcWrite(p)
    \/ \E p \in Procs : GetData(p)
    \/ \E p \in Procs, t \in ArgumentTexts, a \in ArgumentAuthors : AddArgument(p, t, a)
    \/ \E p \in Procs : ArgumentMaxPosition(p)
    \/ \E p \in Procs : ArgumentStatement(p)
    \/ \E p \in Procs : ArgumentInsert(p)
    \/ \E p \in Procs : DbError(p)

Spec == Init /\ [][Next]_vars

(* The database answers: a statement a request has sent to PostgreSQL      *)
(* returns rows or raises, and the asyncio event loop resumes the coroutine *)
(* that awaits it.  For the statements of recalculate_positions this is     *)
(* weak fairness of the request's next step.                                *)

Answered(p) == WF_vars(RecalcFetch(p)) /\ WF_vars(RecalcWrite(p))

\* ratings, their checks and recomputes, reads and database errors
NextLive ==
    \/ \E p \in Procs, nr \in NewRatings : AddRating(p, nr)
    \/ \E p \in Procs : StoreRating(p)
    \/ \E p \in Procs : CheckAndTrigger(p)
    \/ \E p \in Procs : RecalcFetch(p)
    \/ \E p \in Procs : RecalcWrite(p)
    \/ \E p \in Procs : GetData(p)
    \/ \E p \in Procs : DbError(p)

SpecLive == Init /\ [][NextLive]_vars /\ \A p \in Procs : Answered(p)

(* One request at a time, with the clock running *)

ClockProc == "r1"

ClockValues == {<<7, 1>>, <<1, 7>>}
ClockAuthors == {<<"u1">>, <<"u2">>, <<"u3">>, <<"u4">>, <<"u5">>}

ClockRatings ==
    {[statement_id |-> s, author |-> a, quality_rating |-> v[1], agreement_rating |-> v[2]] :
        s \in RatingIds, a \in ClockAuthors, v \in ClockValues}

NextClock ==
    \/ \E nr \in ClockRatings : AddRating(ClockProc, nr)
    \/ StoreRating(ClockProc)
    \/ CheckAndTrigger(ClockProc)
    \/ RecalcFetch(ClockProc)
    \/ RecalcWrite(ClockProc)
    \/ DbError(ClockProc)
    \/ Tick

SpecClock == Init /\ [][NextClock]_vars

(* Ratings in and out of the range 1..7, one request at a time *)

RangeProc == "r1"

RangeValues == {<<0, 4>>, <<4, 8>>, <<8, 0>>, <<1, 7>>, <<7, 1>>}
RangeAuthors == {<<"u1">>, <<"u2">>}
RangeIds == {<<"panel", "1">>, <<"panel", "4">>}

RangeRatings ==
    {[statement_id |-> s, author |-> a, quality_rating |-> v[1], agreement_rating |-> v[2]] :
        s \in RangeIds, a \in RangeAuthors, v \in RangeValues}

NextRange ==
    \/ \E nr \in RangeRatings : AddRating(RangeProc, nr)
    \/ StoreRating(RangeProc)
    \/ CheckAndTrigger(RangeProc)
    \/ DbError(RangeProc)

SpecRange == Init /\ [][NextRange]_vars

(* Critiques are added, by two concurrent requests *)

CritiqueArguments == {4, 9}
CritiqueSpans == {<<0, 27>>, <<100, 128>>, <<102, 141>>, <<0, 129>>, <<5, 5>>, <<-1, 3>>}
CritiqueAuthors == {<<"u1">>, <<" ">>}

NewCritiques ==
    {[argument_id |-> a, critique_text |-> <<"new critique">>, start_ind |-> s[1],
      end_ind |-> s[2], author |-> u] :
        a \in CritiqueArguments, s \in CritiqueSpans, u \in CritiqueAuthors}

NextCritique ==
    \/ \E p \in Procs, nc \in NewCritiques : AddCritique(p, nc)
    \/ \E p \in Procs : CritiquePanel(p)
    \/ \E p \in Procs : CritiqueStatement(p)
    \/ \E p \in Procs : CritiqueInsert(p)
    \/ \E p \in Procs : GetData(p)
    \/ \E p \in Procs : DbError(p)

SpecCritique == Init /\ [][NextCritique]_vars

(* Ratings of two panels that share a column after a recompute, one request *)
(* at a time                                                                *)

RatedProc == "r1"

\* panel 1 is rated with quality 1, panel 8 with quality 7
RatedPanels == { << <<"panel", "1">>, <<1, 7>> >>, << <<"panel", "8">>, <<7, 1>> >> }
RatedAuthors == {<<"u1">>, <<"u2">>, <<"u3">>, <<"u4">>, <<"u5">>}

RatedRatings ==
    {[statement_id |-> s[1], author |-> a, quality_rating |-> s[2][1],
      agreement_rating |-> s[2][2]] : s \in RatedPanels, a \in RatedAuthors}

NextRated ==
    \/ \E nr \in RatedRatings : AddRating(RatedProc, nr)
    \/ StoreRating(RatedProc)
    \/ CheckAndTrigger(RatedProc)
    \/ RecalcFetch(RatedProc)
    \/ RecalcWrite(RatedProc)

SpecRated == Init /\ [][NextRated]_vars

(* One user rates five statements, one request at a time *)

SoloProc == "r1"

SoloIds ==
    {<<"panel", "1">>, <<"panel", "4">>, <<"panel", "7">>, <<"panel", "8">>,
     <<"panel", "1", "critique", "0">>}
SoloAuthors == {<<"u1">>}

SoloRatings ==
    {[statement_id |-> s, author |-> a, quality_rating |-> 7, agreement_rating |-> 7] :
        s \in SoloIds, a \in SoloAuthors}

NextSolo ==
    \/ \E nr \in SoloRatings : AddRating(SoloProc, nr)
    \/ StoreRating(SoloProc)
    \/ CheckAndTrigger(SoloProc)
    \/ RecalcFetch(SoloProc)
    \/ RecalcWrite(SoloProc)

SpecSolo == Init /\ [][NextSolo]_vars

(* Two slots add arguments while one of them also rates and recomputes *)

RaceTexts == {<<"new argument">>}
RaceAuthors == {<<"u1">>}

NextRace ==
    \/ \E p \in Procs, t \in RaceTexts, a \in RaceAuthors :
          AddArgumentUpTo(MaxRacingArguments, p, t, a)
    \/ \E p \in Procs : ArgumentMaxPosition(p)
    \/ \E p \in Procs : ArgumentStatement(p)
    \/ \E p \in Procs : ArgumentInsert(p)
    \/ \E nr \in SoloRatings : AddRating(SoloProc, nr)
    \/ StoreRating(SoloProc)
    \/ CheckAndTrigger(SoloProc)
    \/ RecalcFetch(SoloProc)
    \/ RecalcWrite(SoloProc)

SpecRace == Init /\ [][NextRace]_vars

(* Ratings with well-formed and ill-formed statement ids, one request at a *)
(* time                                                                    *)

IdProc == "r1"

IdStatementIds ==
    {<<"panel", "1">>, <<"panel", "01">>, <<"panel", "9">>, <<"panel", "x">>,
     <<"panel", "">>, <<"panel">>, <<"critique", "1">>,
     <<"panel", "1", "critique", "0">>, <<"panel", "1", "critique", "2">>,
     <<"panel", "1", "critique", "-1">>, <<"panel", "1", "critique">>,
     <<"panel", "1", "critique", "x">>, <<"panel", "1", "foo">>}
IdAuthors == {<<"u1">>}

IdRatings ==
    {[statement_id |-> s, author |-> a, quality_rating |-> 7, agreement_rating |-> 1] :
        s \in IdStatementIds, a \in IdAuthors}

NextId ==
    \/ \E nr \in IdRatings : AddRating(IdProc, nr)
    \/ StoreRating(IdProc)
    \/ CheckAndTrigger(IdProc)
    \/ RecalcFetch(IdProc)
    \/ RecalcWrite(IdProc)

SpecId == Init /\ [][NextId]_vars

(* One slot submits ratings, the other reads the layout and adds arguments: *)
(* at most one recompute runs at a time                                     *)

Rater == "r1"
Reader == "r2"

NextReader ==
    \/ \E nr \in NewRatings : AddRating(Rater, nr)
    \/ StoreRating(Rater)
    \/ CheckAndTrigger(Rater)
    \/ RecalcFetch(Rater)
    \/ RecalcWrite(Rater)
    \/ GetData(Reader)
    \/ \E t \in ArgumentTexts, a \in ArgumentAuthors : AddArgument(Reader, t, a)
    \/ ArgumentMaxPosition(Reader)
    \/ ArgumentStatement(Reader)
    \/ ArgumentInsert(Reader)

SpecReader == Init /\ [][NextReader]_vars

----------------------------------------------------------------------------
(* Claims *)

\* C1: at most one recompute is in flight at any time: a rating whose check
\* satisfies the trigger while another request is inside
\* recalculate_positions starts no second recompute.
C1_AtMostOneRecompute == Cardinality({p \in Procs : InRecompute(p)}) <= 1

\* the rows of argument_positions once recompute w has written all its rows
RECURSIVE WriteAll(_, _, _)
WriteAll(ap, rows, i) ==
    IF i >= Len(rows) THEN ap
    ELSE WriteAll(UpsertPosition(ap, rows[i + 1], NewColumn(i), NewPosition(i)), rows, i + 1)

\* C2: the write-back is one atomic unit: a GET /data that runs while a
\* recompute is writing returns the complete layout from before the recompute
\* or the complete layout after it.
C2_ReaderSeesCompleteLayout ==
    [][\A p \in Procs, w \in Procs :
          (GetData(p) /\ hasArgumentPositions /\ pc[w] = "recalc_write")
              => Layouts \subseteq
                    (ConvertToFrontendFormat(req[w].old)
                        \cup ConvertToFrontendFormat(WriteAll(req[w].old, req[w].rows, 0)))]_vars

SamePair(r, p) ==
    r.statement_id = req[p].statement_id /\ r.author = Strip(req[p].author)

\* C4: after an add-rating call the store holds exactly one rating for the
\* call's (user, statement) pair, it carries the call's quality and agreement
\* values, and the ratings of other pairs are unchanged.
C4_UpsertLastWriteWins ==
    [][\A p \in Procs :
          StoreRating(p) =>
              /\ Cardinality({r \in ratings' : SamePair(r, p)}) = 1
              /\ \A r \in ratings' :
                    SamePair(r, p) =>
                        /\ r.quality_rating = req[p].quality_rating
                        /\ r.agreement_rating = req[p].agreement_rating
              /\ {r \in ratings' : ~SamePair(r, p)} = {r \in ratings : ~SamePair(r, p)}]_vars

\* C5 as claimed, with the warm-up the code uses (TriggerCount stored ratings)
\* and N = 1: no recompute starts before the warm-up number of ratings is
\* reached, and from then on every rating insert starts one.
C5_EveryInsertAfterWarmup ==
    [][\A p \in Procs :
          CheckAndTrigger(p) =>
              (pc'[p] = "recalc_fetch" <=> Cardinality(ratings) >= TriggerCount)]_vars

\* C5 (amended): a recompute starts only at the check that follows a rating
\* insert, never while fewer than TriggerCount ratings are stored, and that
\* check starts one exactly when at least TriggerCount stored ratings were
\* created or updated within the last hour.
C5_TriggerOnRecentCount ==
    [][\A p \in Procs :
          /\ (pc[p] # "recalc_fetch" /\ pc'[p] = "recalc_fetch")
                => (pc[p] = "check" /\ Cardinality(ratings) >= TriggerCount)
          /\ CheckAndTrigger(p) =>
                (pc'[p] = "recalc_fetch"
                    <=> Cardinality({r \in ratings : r.created_at > now - Hour}) >= TriggerCount)]_vars

\* a recompute has started after an hour has passed since start-up
C5_Witness == \E p \in Procs : pc[p] = "recalc_fetch" /\ now >= Hour

ColumnRange == 0..(num_columns - 1)

\* C6: in every reachable state every argument's column index lies in
\* [0, num_columns): the one stored with the argument, the one a recompute
\* wrote, and the one the read API uses.
C6_ColumnsInRange ==
    /\ \A a \in arguments : a.column_index \in ColumnRange
    /\ \A r \in argument_positions : r.column_index \in ColumnRange
    /\ \A a \in ArgumentIds : ColumnOr0(argument_positions, a) \in ColumnRange

SeedArgumentIds == {a.argument_id : a \in SeedArguments}

\* an argument added through add_argument has been repositioned by a recompute
C6_Witness ==
    \E a \in ArgumentIds \ SeedArgumentIds :
        \E r \in argument_positions : r.argument_id = a

\* the places <<column, index>> of argument a in the layout cols
PlacesOf(cols, a) ==
    {ck \in UNION {{<<c, k>> : k \in 1..Len(cols[c])} : c \in 1..Len(cols)} :
        cols[ck[1]][ck[2]].argument_id = a}

\* C7: at every moment, also while a recompute is writing, each stored
\* argument has exactly one column, and every layout the read API returns
\* holds every stored argument exactly once and nothing else.
C7_OneColumnPerArgument ==
    /\ \A a \in ArgumentIds :
          /\ Cardinality({r \in arguments : r.argument_id = a}) = 1
          /\ Cardinality({r \in argument_positions : r.argument_id = a}) <= 1
    /\ hasArgumentPositions =>
          \A cols \in Layouts :
              /\ \A a \in ArgumentIds : Cardinality(PlacesOf(cols, a)) = 1
              /\ \A c \in 1..Len(cols) : \A k \in 1..Len(cols[c]) :
                    cols[c][k].argument_id \in ArgumentIds

\* a recompute has written some but not all of its rows, the read API answers
\* and an argument was added since start-up
C7_Witness ==
    /\ hasArgumentPositions
    /\ ArgumentIds # SeedArgumentIds
    /\ \E w \in Procs :
          pc[w] = "recalc_write" /\ req[w].i > 0 /\ req[w].i < Len(req[w].rows)

\* C8: an argument submitted through add_argument is assigned the last
\* column, and until a recompute reassigns it the read API shows it there.
C8_NewArgumentShownInLastColumn ==
    \A a \in arguments :
        (/\ a.argument_id \notin SeedArgumentIds
         /\ ~\E r \in argument_positions : r.argument_id = a.argument_id)
            => /\ a.column_index = num_columns - 1
               /\ hasArgumentPositions
               /\ \A cols \in Layouts :
                     /\ Len(cols) >= num_columns
                     /\ \E k \in 1..Len(cols[num_columns]) :
                           cols[num_columns][k].argument_id = a.argument_id

\* C9: when the recompute a rating insert triggered fails, the rating stays
\* stored and the add-rating request still returns success.
C9_RecomputeFailureNotPropagated ==
    [][\A p \in Procs :
          (InRecompute(p) /\ pc'[p] = "idle")
              => (resp'[p].status = 200 /\ ratings' = ratings)]_vars

\* C10: a recompute that fails leaves the published layout as it was when
\* the recompute started.
C10_FailedRecomputeKeepsLayout ==
    [][\A p \in Procs :
          (InRecompute(p) /\ pc'[p] = "idle" /\ resp'[p].status # 200)
              => /\ Layouts = ConvertToFrontendFormat(req[p].old)
                 /\ critiques' = critiques]_vars

C12_RecomputeWritesPositionsOnly ==
    [][\A p \in Procs :
          (RecalcFetch(p) \/ RecalcWrite(p))
              => /\ statements' = statements
                 /\ {<<a.argument_id, a.argument, a.author>> : a \in arguments'}
                        = {<<a.argument_id, a.argument, a.author>> : a \in arguments}
                 /\ {<<c.critique_id, c.argument_id, c.text, c.start_ind, c.end_ind, c.author>> :
                        c \in critiques'}
                        = {<<c.critique_id, c.argument_id, c.text, c.start_ind, c.end_ind, c.author>> :
                              c \in critiques}
                 /\ ratings' = ratings]_vars

\* a recompute has replaced the position of an argument while ratings and an
\* argument added since start-up are stored
C12_Witness ==
    /\ ratings # {}
    /\ ArgumentIds # {a.argument_id : a \in SeedArguments}
    /\ \E w \in Procs :
          /\ pc[w] = "recalc_write"
          /\ req[w].i > 0
          /\ argument_positions # req[w].old

C14_ExactlyNumColumns ==
    hasArgumentPositions =>
        \A cols \in Layouts :
            /\ Len(cols) = num_columns
            /\ \A c \in 1..Len(cols) : \A k \in 1..(Len(cols[c]) - 1) :
                  PositionOr0(argument_positions, cols[c][k].argument_id)
                      <= PositionOr0(argument_positions, cols[c][k + 1].argument_id)

\* C15: every stored rating has quality and agreement in 1..7: an add-rating
\* call with either value outside 1..7 is rejected with an error and leaves
\* the ratings as they were, a call with the boundary values 1 and 7 passes
\* the checks, and the INSERT that stores it stores these values.
C15_RatingsInRange ==
    /\ [](\A r \in ratings :
            r.quality_rating \in 1..7 /\ r.agreement_rating \in 1..7)
    /\ [][\A nr \in RangeRatings :
            AddRating(RangeProc, nr) =>
                /\ (nr.quality_rating \notin 1..7 \/ nr.agreement_rating \notin 1..7)
                      => /\ resp'[RangeProc].status = 400
                         /\ pc'[RangeProc] = "idle"
                         /\ ratings' = ratings
                /\ ({nr.quality_rating, nr.agreement_rating} = {1, 7})
                      => /\ pc'[RangeProc] = "store"
                         /\ req'[RangeProc].quality_rating = nr.quality_rating
                         /\ req'[RangeProc].agreement_rating = nr.agreement_rating]_vars
    /\ [][(StoreRating(RangeProc) /\ ratingsHasStatementId) =>
            \E r \in ratings' :
                /\ r.statement_id = req[RangeProc].statement_id
                /\ r.quality_rating = req[RangeProc].quality_rating
                /\ r.agreement_rating = req[RangeProc].agreement_rating]_vars

\* ratings with the boundary values are stored and the last call, with a
\* value out of range, was rejected
C15_Witness ==
    /\ resp[RangeProc] = Response(400, "Ratings must be between 1 and 7")
    /\ \E r \in ratings : r.quality_rating = 1 /\ r.agreement_rating = 7
    /\ \E r \in ratings : r.quality_rating = 7 /\ r.agreement_rating = 1

\* the span of critique c lies inside the text of its parent argument
ValidSpan(c) ==
    /\ c.argument_id \in ArgumentIds
    /\ 0 <= c.start_ind
    /\ c.start_ind < c.end_ind
    /\ c.end_ind <= TextLen(ArgumentRow(c.argument_id).argument)

\* C16: every critique in the store, created by add_critique or by the seed
\* data, has a span with 0 <= start < end <= length of its parent argument's
\* text.
C16_AllSpansValid == \A c \in critiques : ValidSpan(c)

\* the critiques created by add_critique have valid spans
AddedSpansValid == \A c \in critiques \ SeedCritiques : ValidSpan(c)

\* the request of slot p has just run a recompute to its end
Recomputed(p) == pc[p] = "idle" /\ resp[p] = Repositioned

\* C17: after a recompute, an argument with zero ratings has a greater
\* position than every rated argument of the same column.
C17_UnratedAfterRated ==
    Recomputed(RatedProc) =>
        \A u \in argument_positions, r \in argument_positions :
            (/\ u.column_index = r.column_index
             /\ RatingCount(u.argument_id) = 0
             /\ RatingCount(r.argument_id) > 0)
                => u.position_in_column > r.position_in_column

\* C18: after a recompute, within each column the arguments stand in
\* descending order of quality (position 0 = highest quality), and arguments
\* of equal quality stand in creation order.
C18_QualityDescending ==
    Recomputed(RatedProc) =>
        \A x \in argument_positions, y \in argument_positions :
            (/\ x.column_index = y.column_index
             /\ RatingCount(x.argument_id) > 0
             /\ RatingCount(y.argument_id) > 0
             /\ x.position_in_column < y.position_in_column)
                => /\ ~AvgQualityGreater(y.argument_id, x.argument_id)
                   /\ AvgQualityGreater(x.argument_id, y.argument_id)
                         \/ x.argument_id < y.argument_id

\* C19: a recompute maps each statement to a column by its cluster only: a
\* rated statement gets column 0 (majority cluster) or column 1 (minority
\* cluster), an unrated statement gets column num_columns - 1, and no
\* statement gets a column in 2..num_columns-2.
C19_ColumnByCluster ==
    Recomputed(RatedProc) =>
        \A r \in argument_positions :
            /\ RatingCount(r.argument_id) > 0 => r.column_index \in {0, 1}
            /\ RatingCount(r.argument_id) = 0 => r.column_index = num_columns - 1
            /\ r.column_index \notin 2..(num_columns - 2)

\* the users who have rated anything
RatedUsers == {r.author : r \in ratings}

\* C21: when all rated users share one factor sign, which is the case
\* whatever the factors are when a single user has rated, a recompute
\* assigns every statement to column 0 or to the fallback column
\* num_columns - 1, and none to column 1.
C21_DegenerateClusteringColumns ==
    (Recomputed(SoloProc) /\ Cardinality(RatedUsers) = 1) =>
        \A r \in argument_positions :
            r.column_index \in {0, num_columns - 1}

\* every critique has one row, and its category_index is 0 or 1 (the column
\* default 0, which no statement of the program changes)
CategoryInRange ==
    \A c \in critiques :
        /\ Cardinality({x \in critiques : x.critique_id = c.critique_id}) = 1
        /\ c.category_index \in {0, 1}

\* C23: a recompute that runs after a completed recompute, with no rating,
\* argument or critique added in between, changes no column (and no
\* position): each of its writes leaves argument_positions as it was when
\* the run started.
C23_SecondRecomputeChangesNothing ==
    [][(/\ RecalcWrite(SoloProc)
        /\ hasArgumentPositions
        /\ {r.argument_id : r \in req[SoloProc].old} = ArgumentIds)
            => argument_positions' = req[SoloProc].old]_vars

\* a second recompute on the same five ratings has written some of its rows
C23_Witness ==
    /\ pc[SoloProc] = "recalc_write"
    /\ req[SoloProc].i > 0
    /\ {r.argument_id : r \in req[SoloProc].old} = ArgumentIds
    /\ Cardinality(ratings) = Cardinality(SoloIds)

\* C24: after any interleaving of add_argument requests and recomputes no
\* two arguments have the same (column, position) pair, in the rows
\* add_argument writes and in the rows a recompute writes.
C24_DistinctColumnPosition ==
    /\ \A a \in arguments, b \in arguments :
          (a.column_index = b.column_index
              /\ a.position_in_column = b.position_in_column)
                => a.argument_id = b.argument_id
    /\ \A a \in argument_positions, b \in argument_positions :
          (a.column_index = b.column_index
              /\ a.position_in_column = b.position_in_column)
                => a.argument_id = b.argument_id

\* the statement id `parts` names an existing argument ('panel_X') or an
\* existing critique of an existing argument ('panel_X_critique_Y' with
\* 0 <= Y < number of critiques of X)
NamesStatement(parts) ==
    /\ Len(parts) \in {2, 4}
    /\ parts[1] = "panel"
    /\ IsInt(parts[2])
    /\ ParseInt(parts[2]) \in ArgumentIds
    /\ Len(parts) = 4 =>
          /\ parts[3] = "critique"
          /\ IsInt(parts[4])
          /\ 0 <= ParseInt(parts[4])
          /\ ParseInt(parts[4]) < Cardinality(CritiquesOf(ParseInt(parts[2])))

\* C25: add_rating stores a rating only when its statement_id names an
\* existing argument or an existing critique of an existing argument; a call
\* with any other statement_id is rejected with an error and leaves the
\* ratings as they were.
C25_OnlyExistingStatementsRated ==
    /\ [](\A r \in ratings : NamesStatement(r.statement_id))
    /\ [][\A nr \in IdRatings :
            (AddRating(IdProc, nr) /\ ~NamesStatement(nr.statement_id))
                => /\ resp'[IdProc].status = 400
                   /\ pc'[IdProc] = "idle"
                   /\ ratings' = ratings]_vars

\* the user intercepts train_matrix_factorization starts from: the
\* warm-start value of init_params, or zero
StartUserIntercepts ==
    IF "user_intercepts" \in DOMAIN mf.init_params
    THEN mf.init_params["user_intercepts"]
    ELSE [r \in TrainUsers |-> 0]

\* C26: in a call with include_user_intercept=False every user intercept
\* keeps the value it had before training, through every epoch, while the
\* statement intercepts and the global intercept require a gradient and
\* receive one in every backward pass.
C26_UserInterceptsFrozen ==
    (mf.phase # "none" /\ ~mf.include_user_intercept) =>
        /\ mf.weight["user_intercepts"] = StartUserIntercepts
        /\ mf.requires_grad["statement_intercepts"]
        /\ mf.requires_grad["global_intercept"]
        /\ mf.k > 0 =>
              /\ mf.has_grad["statement_intercepts"]
              /\ mf.has_grad["global_intercept"]
              /\ ~mf.has_grad["user_intercepts"]

\* a warm-started call with include_user_intercept=False has returned after
\* MaxEpochs epochs that moved the statement and global intercepts
C26_Witness ==
    /\ mf.phase = "done"
    /\ ~mf.include_user_intercept
    /\ mf.n_epochs = MaxEpochs
    /\ mf.init_params = WarmStart
    /\ mf.weight["statement_intercepts"] # DefaultWeight("statement_intercepts")
    /\ mf.weight["global_intercept"] # DefaultWeight("global_intercept")

====
